---- MODULE Spec2Model ----
(***************************************************************************)
(* A model of the workflow demos of agentflow-studio:                      *)
(*   - HumanInTheLoopSession (workflows/human_in_the_loop_workflow.py):    *)
(*     start / submit_decision on one session object, with the executors   *)
(*     AnalystExecutor, HumanGateExecutor and ProcessorExecutor that the   *)
(*     workflow runs between the awaits;                                   *)
(*   - GroupChatModerator and run_group_chat_workflow                      *)
(*     (workflows/group_chat_workflow.py);                                 *)
(*   - run_sequential_workflow and its three executors                     *)
(*     (workflows/sequential_workflow.py);                                 *)
(*   - the human-in-the-loop tab of the dashboard (app.py), which drives   *)
(*     the sessions it creates, and the whole page with the run buttons    *)
(*     of the other two tabs;                                              *)
(*   - two sessions used side by side.                                     *)
(* The agent framework (WorkflowBuilder, Workflow.run, send_responses,     *)
(* run_stream) and the agents are external: the model gives them the       *)
(* behaviour the source relies on at each call site. An agent call either  *)
(* returns or raises; a raise in a handler makes the awaited run raise.    *)
(***************************************************************************)
EXTENDS Integers, Sequences, FiniteSets, TLC

\* ------------------------------------------------------------------ bounds
\* Calls (start or submit_decision) issued on the session in one behaviour.
MaxCalls == 3
\* Reads of all_events by the caller in one behaviour.
MaxReads == 2
\* Calls issued on each of two sessions used side by side.
MaxSessionCalls == 2
\* Sessions the dashboard creates in one behaviour.
MaxAppSessions == 4
\* Largest max_rounds given to the group chat.
MaxRounds == 2

\* ------------------------------------------------------------------ inputs
None == 0
Decisions == {"Approved", "Rejected"}
Expenses == {"EXP-2026-0412"}
CallIds == 1 .. MaxCalls

VARIABLES
    \* --- HumanInTheLoopSession fields
    workflow,            \* self._workflow: None or the workflow object built by a start
    pending_request_id,  \* self._pending_request_id: None or a request id
    events_log,          \* self._events_log
    credential,          \* self._credential: None (attribute unset) or its owner
    analyst_agent,       \* self._analyst_agent
    processor_agent,     \* self._processor_agent
    human_gate,          \* self._human_gate
    \* --- the world around the session
    open,                \* resources acquired and not yet released
    wf,                  \* the workflow objects, one per start call
    calls,               \* the calls issued on the session: position and result
    nCalls,              \* how many calls were issued
    sent,                \* every invocation of Workflow.send_responses, in order
    reads,               \* the lists the caller got from all_events, in order
    \* --- GroupChatModerator and run_group_chat_workflow
    gc_pc,
    gc_turn_order,
    gc_max_rounds,
    gc_round,            \* self._round
    gc_turn,             \* position of the inner loop in turn_order
    gc_iter,             \* position of the outer loop in range(max_rounds)
    gc_conversation,     \* self._conversation
    gc_events,           \* self._events
    gc_all_events,       \* all_events of run_group_chat_workflow
    gc_invoked,          \* every agent.run call of the moderator, in order
    gc_on_event,         \* whether an on_event callback was given
    gc_called,           \* the entries on_event was called with, in order
    \* --- run_sequential_workflow
    seq_pc,
    seq_ticket,          \* ticket_text
    seq_on_event,        \* whether an on_event callback was given
    seq_messages,        \* the list of messages on its way to the next stage
    seq_invoked,         \* every handler call of the run, in order
    seq_events_log,      \* events_log
    seq_called,          \* the entries on_event was called with, in order
    seq_open,            \* the credential and agents entered and not yet exited
    \* --- two HumanInTheLoopSession objects used side by side
    two_session,         \* per session: _workflow, _pending_request_id, _events_log
    two_run,             \* per session: the workflow object it holds
    two_gate,            \* per session: the attributes of its HumanGateExecutor object
    two_gate_class,      \* the class attribute HumanGateExecutor._pending_messages
    two_pc,              \* per session: where its call in flight stands
    two_ncalls,          \* per session: calls issued
    two_actor,           \* the session whose operation made the last step
    \* --- the dashboard's human-in-the-loop tab (app.py)
    config_ok,           \* validate_config()
    hitl_phase,          \* st.session_state.hitl_phase
    hitl_analysis_events,
    hitl_final_events,
    hitl_decision,       \* st.session_state.hitl_decision, "" while the key is not set
    app_pc,              \* where the script stands
    app_buttons,         \* the buttons the last script run drew enabled
    app_nsessions,       \* HumanInTheLoopSession objects created so far
    app_run,             \* what happened since the last Submit for Analysis
    app_click            \* the click of this script run that tab 3 is still to see

hitlVars == << workflow, pending_request_id, events_log, credential, analyst_agent,
               processor_agent, human_gate, open, wf, calls, nCalls, sent, reads >>
gcVars == << gc_pc, gc_turn_order, gc_max_rounds, gc_round, gc_turn, gc_iter,
             gc_conversation, gc_events, gc_all_events, gc_invoked, gc_on_event,
             gc_called >>
seqVars == << seq_pc, seq_ticket, seq_on_event, seq_messages, seq_invoked,
              seq_events_log, seq_called, seq_open >>
twoVars == << two_session, two_run, two_gate, two_gate_class, two_pc, two_ncalls,
              two_actor >>
appVars == << config_ok, hitl_phase, hitl_analysis_events, hitl_final_events,
              hitl_decision, app_pc, app_buttons, app_nsessions, app_run, app_click >>
\* What no step of a call on the session touches.
aroundVars == << gcVars, seqVars, twoVars, appVars, reads >>
\* What no step of the group chat touches.
aroundGcVars == << hitlVars, seqVars, twoVars, appVars >>
\* What no step of the sequential run touches.
aroundSeqVars == << hitlVars, gcVars, twoVars, appVars >>
\* What no step of the two sessions touches.
aroundTwoVars == << hitlVars, gcVars, seqVars, appVars >>
\* What no step of the dashboard touches, the session it drives aside.
aroundAppVars == << gcVars, seqVars, twoVars >>
vars == << hitlVars, gcVars, seqVars, twoVars, appVars >>

\* ------------------------------------------------------------------ values
\* A text is a tuple of strings (so that texts built from parts compare).
ChatMessage(role, text) == [role |-> role, text |-> text]

\* A framework event: its class, the executor it names, its payload.
Event(cls, who, data) == [cls |-> cls, who |-> who, data |-> data, request_id |-> 0]
StatusEvent(state) == Event("WorkflowStatusEvent", "", << state >>)
InvokedEvent(id) == Event("ExecutorInvokedEvent", id, << >>)
CompletedEvent(id) == Event("ExecutorCompletedEvent", id, << >>)
FailedEvent(id) == Event("ExecutorFailedEvent", id, << >>)

\* The id the framework gives the request raised by workflow w's gate.
RequestId(w) == w

IsStatus(e) == e.cls = "WorkflowStatusEvent"
IsRequestInfo(e) == e.cls = "RequestInfoEvent"

\* ------------------------------------------------------------------ HumanInTheLoopSession

\* An _event_to_dict without the RequestInfoEvent branch.
EventToDict_NoRequestBranch(event) ==
    IF event.cls = "WorkflowStatusEvent"
    THEN [type |-> "status", agent |-> "workflow", content |-> event.data]
    ELSE IF event.cls = "WorkflowOutputEvent"
    THEN [type |-> "output", agent |-> "processor", content |-> event.data]
    ELSE [type |-> event.cls, agent |-> event.who, content |-> << event.cls >>]

\* _event_to_dict: one branch per isinstance test.
EventToDict(event) ==
    IF event.cls = "WorkflowStatusEvent"
    THEN [type |-> "status", agent |-> "workflow", content |-> event.data]
    ELSE IF event.cls = "WorkflowOutputEvent"
    THEN [type |-> "output", agent |-> "processor", content |-> event.data]
    ELSE IF event.cls = "RequestInfoEvent"
    THEN [type |-> "request_info", agent |-> event.who, content |-> event.data]
    ELSE [type |-> event.cls, agent |-> event.who, content |-> << event.cls >>]

\* The loops of _result_to_dicts: one entry per event, in the order of the
\* events.
EventsToDicts(events) == [i \in 1 .. Len(events) |-> EventToDict(events[i])]

\* _result_to_dicts: the entries of the result list first, then the entries
\* of result.status_timeline().
ResultToDicts(result, status_timeline) ==
    EventsToDicts(result) \o EventsToDicts(status_timeline)

\* A _result_to_dicts whose second loop does not call on_event.
OnEventCalls_ResultOnly(result, status_timeline, on_event) ==
    IF on_event THEN EventsToDicts(result) ELSE << >>

\* _result_to_dicts, lines 264-265 and 272-273: the entries on_event is
\* called with, in order: in both loops each entry appended, when a
\* callback was given.
OnEventCalls(result, status_timeline, on_event) ==
    IF on_event
    THEN EventsToDicts(result) \o EventsToDicts(status_timeline)
    ELSE << >>

\* What Workflow.run / send_responses hand back for the events a run
\* produced: the list holds the status events only with
\* include_status_events=True; status_timeline() holds them always.
RunResult(produced, include_status_events) ==
    [ events |-> IF include_status_events THEN produced
                 ELSE SelectSeq(produced, LAMBDA e : ~IsStatus(e)),
      timeline |-> SelectSeq(produced, IsStatus) ]

NoWorkflow ==
    [ state |-> "NONE", next |-> "none", msgs |-> << >>, requests |-> {},
      produced |-> << >>, response |-> "", awaiter |-> None,
      has_pending_messages |-> FALSE, pending_messages |-> << >>,
      invoked |-> << >> ]

NoCall ==
    [ kind |-> "none", pc |-> "idle", arg |-> "", w |-> None, reqid |-> None,
      outcome |-> "none", error |-> "", batch |-> << >>, ret_produced |-> << >>,
      on_event |-> FALSE, called |-> << >>,
      pre |-> [ workflow |-> None, pending |-> None, log |-> << >>,
                state |-> "NONE", inflight |-> 0 ] ]

InFlight == { c \in CallIds : calls[c].pc \notin {"idle", "done"} }

\* The run state of the workflow the session holds.
RunState == IF workflow = None THEN "NONE" ELSE wf[workflow].state

\* What a call finds as it begins.
Snapshot ==
    [ workflow |-> workflow, pending |-> pending_request_id, log |-> events_log,
      state |-> RunState, inflight |-> Cardinality(InFlight) ]

HitlInit ==
    /\ workflow = None
    /\ pending_request_id = None
    /\ events_log = << >>
    /\ credential = None
    /\ analyst_agent = None
    /\ processor_agent = None
    /\ human_gate = None
    /\ open = {}
    /\ wf = [w \in CallIds |-> NoWorkflow]
    /\ calls = [c \in CallIds |-> NoCall]
    /\ nCalls = 0
    /\ sent = << >>
    /\ reads = << >>

\* A caller may issue call c: calls are numbered in the order they begin.
\* With serial = TRUE the caller awaits each call before the next one.
MayCall(c, serial) ==
    /\ c = nCalls + 1
    /\ c \in CallIds
    /\ serial => InFlight = {}

\* start, lines 185-198: a new credential replaces self._credential.
StartCall(c, expense_text, on_event, serial) ==
    /\ MayCall(c, serial)
    /\ nCalls' = c
    /\ credential' = c
    /\ open' = open \cup { << "credential", c >> }
    /\ calls' = [calls EXCEPT ![c] =
                    [ NoCall EXCEPT !.kind = "start", !.pc = "create_analyst",
                                    !.arg = expense_text, !.on_event = on_event,
                                    !.pre = Snapshot ]]
    /\ UNCHANGED << aroundVars, workflow, pending_request_id, events_log, analyst_agent,
                    processor_agent, human_gate, wf, sent >>

\* start, lines 199-202: the analyst agent is created and entered.
StartCreateAnalyst(c) ==
    /\ calls[c].pc = "create_analyst"
    /\ analyst_agent' = c
    /\ open' = open \cup { << "analyst_agent", c >> }
    /\ calls' = [calls EXCEPT ![c].pc = "create_processor"]
    /\ UNCHANGED << aroundVars, workflow, pending_request_id, events_log, credential,
                    processor_agent, human_gate, wf, nCalls, sent >>

\* start, lines 204-225: the processor agent, the executors and the workflow
\* are built, self._workflow is replaced, and the new workflow is run on
\* the user message; the call awaits the run.
StartBuildAndRun(c) ==
    /\ calls[c].pc = "create_processor"
    /\ processor_agent' = c
    /\ open' = open \cup { << "processor_agent", c >> }
    /\ human_gate' = c
    /\ workflow' = c
    /\ wf' = [wf EXCEPT ![c] =
                 [ NoWorkflow EXCEPT
                     !.state = "IN_PROGRESS", !.next = "analyst",
                     !.msgs = << ChatMessage("user", << calls[c].arg >>) >>,
                     !.produced = << StatusEvent("IN_PROGRESS") >>,
                     !.awaiter = c ]]
    /\ calls' = [calls EXCEPT ![c].pc = "await_run", ![c].w = c]
    /\ UNCHANGED << aroundVars, pending_request_id, events_log, credential, analyst_agent,
                    nCalls, sent >>

\* A handler of executor id was called with the messages `context`.
Invocation(id, context) == [ stage |-> id, context |-> context ]

\* ---- the awaited run of workflow w ends

\* The run of workflow w returns to the call that awaits it; rec is the
\* workflow as the last handler left it.
RunReturns(w, rec, state, events) ==
    /\ wf' = [wf EXCEPT ![w] = [ rec EXCEPT !.state = state, !.next = "none",
                                            !.produced = events, !.awaiter = None ]]
    /\ calls' = [calls EXCEPT ![wf[w].awaiter].pc = "run_returned",
                              ![wf[w].awaiter].ret_produced = events]

\* A handler of executor id raised: the run fails and the exception reaches
\* the call that awaits it.
RunRaises(w, id) ==
    LET events == wf[w].produced \o
                    << InvokedEvent(id), FailedEvent(id),
                       Event("WorkflowFailedEvent", id, << >>),
                       StatusEvent("FAILED") >>
    IN  /\ wf' = [wf EXCEPT ![w].state = "FAILED", ![w].next = "none",
                            ![w].produced = events, ![w].awaiter = None,
                            ![w].invoked = Append(@, Invocation(id, wf[w].msgs))]
        /\ calls' = [calls EXCEPT ![wf[w].awaiter].pc = "run_raised",
                                  ![wf[w].awaiter].ret_produced = events]

Running(w, stage) == wf[w].state = "IN_PROGRESS" /\ wf[w].next = stage

\* ---- the executors

\* AnalystExecutor.handle, agent.run returned: the reply is appended to
\* [message] and the list is sent to the human gate.
AnalystHandle(w) ==
    /\ Running(w, "analyst")
    /\ wf' = [wf EXCEPT
                ![w].msgs = @ \o << ChatMessage("assistant", << "analysis" >> \o @[1].text) >>,
                ![w].next = "human-gate",
                ![w].produced = @ \o << InvokedEvent("analyst"), CompletedEvent("analyst") >>,
                ![w].invoked = Append(@, Invocation("analyst", wf[w].msgs))]
    /\ UNCHANGED << aroundVars, workflow, pending_request_id, events_log, credential,
                    analyst_agent, processor_agent, human_gate, open, calls,
                    nCalls, sent >>

\* AnalystExecutor.handle, agent.run raised.
AnalystFail(w) ==
    /\ Running(w, "analyst")
    /\ RunRaises(w, "analyst")
    /\ UNCHANGED << aroundVars, workflow, pending_request_id, events_log, credential,
                    analyst_agent, processor_agent, human_gate, open, nCalls, sent >>

\* The text shown to the human: the text of the last message.
AnalysisText(messages) ==
    IF messages = << >> THEN << >> ELSE messages[Len(messages)].text

\* HumanGateExecutor.receive_analysis: keeps the messages and raises the
\* request; the run goes idle with the request pending.
GateReceiveAnalysis(w) ==
    /\ Running(w, "human-gate")
    /\ LET req == [ Event("RequestInfoEvent", "human-gate", AnalysisText(wf[w].msgs))
                        EXCEPT !.request_id = RequestId(w) ]
           events == wf[w].produced \o
                       << InvokedEvent("human-gate"), req, CompletedEvent("human-gate"),
                          StatusEvent("IDLE_WITH_PENDING_REQUESTS") >>
           kept == [ wf[w] EXCEPT !.has_pending_messages = TRUE,
                                  !.pending_messages = wf[w].msgs,
                                  !.requests = @ \cup { RequestId(w) },
                                  !.invoked = Append(@, Invocation("human-gate", wf[w].msgs)) ]
       IN  RunReturns(w, kept, "IDLE_WITH_PENDING_REQUESTS", events)
    /\ UNCHANGED << aroundVars, workflow, pending_request_id, events_log, credential,
                    analyst_agent, processor_agent, human_gate, open, nCalls, sent >>

\* A gate that answers a decision by asking again instead of sending the
\* messages on: the run goes idle with a new request pending.
GateHandleHumanResponse_AsksAgain(w) ==
    /\ Running(w, "gate_response")
    /\ LET req == [ Event("RequestInfoEvent", "human-gate", AnalysisText(wf[w].msgs))
                        EXCEPT !.request_id = RequestId(w) ]
           events == wf[w].produced \o
                       << InvokedEvent("human-gate"), req, CompletedEvent("human-gate"),
                          StatusEvent("IDLE_WITH_PENDING_REQUESTS") >>
           kept == [ wf[w] EXCEPT !.requests = @ \cup { RequestId(w) } ]
       IN  RunReturns(w, kept, "IDLE_WITH_PENDING_REQUESTS", events)
    /\ UNCHANGED << aroundVars, workflow, pending_request_id, events_log, credential,
                    analyst_agent, processor_agent, human_gate, open, nCalls, sent >>

\* A gate that sends the decision on without the messages it kept.
GateHandleHumanResponse_DecisionOnly(w) ==
    /\ Running(w, "gate_response")
    /\ wf' = [wf EXCEPT
                ![w].msgs = << ChatMessage("user", << "Manager decision: ", wf[w].response >>) >>,
                ![w].next = "processor",
                ![w].produced = @ \o << InvokedEvent("human-gate"),
                                        CompletedEvent("human-gate") >>]
    /\ UNCHANGED << aroundVars, workflow, pending_request_id, events_log, credential,
                    analyst_agent, processor_agent, human_gate, open, calls,
                    nCalls, sent >>

\* HumanGateExecutor.handle_human_response: the decision is appended to the
\* kept list itself (or to a new list when none was kept) and the list is
\* sent to the processor.
GateHandleHumanResponse(w) ==
    /\ Running(w, "gate_response")
    /\ LET messages == (IF wf[w].has_pending_messages THEN wf[w].pending_messages ELSE << >>)
                         \o << ChatMessage("user", << "Manager decision: ", wf[w].response >>) >>
       IN  wf' = [wf EXCEPT
                    ![w].pending_messages = IF wf[w].has_pending_messages THEN messages ELSE @,
                    ![w].msgs = messages,
                    ![w].next = "processor",
                    ![w].produced = @ \o << InvokedEvent("human-gate"),
                                            CompletedEvent("human-gate") >>]
    /\ UNCHANGED << aroundVars, workflow, pending_request_id, events_log, credential,
                    analyst_agent, processor_agent, human_gate, open, calls,
                    nCalls, sent >>

\* ProcessorExecutor.handle, agent.run returned: its text is the output and
\* the run goes idle.
ProcessorHandle(w) ==
    /\ Running(w, "processor")
    /\ LET out == Event("WorkflowOutputEvent", "processor",
                        << "processed" >> \o wf[w].msgs[Len(wf[w].msgs)].text)
           events == wf[w].produced \o
                       << InvokedEvent("processor"), out, CompletedEvent("processor"),
                          StatusEvent("IDLE") >>
           ran == [ wf[w] EXCEPT !.invoked = Append(@, Invocation("processor", wf[w].msgs)) ]
       IN  RunReturns(w, ran, "IDLE", events)
    /\ UNCHANGED << aroundVars, workflow, pending_request_id, events_log, credential,
                    analyst_agent, processor_agent, human_gate, open, nCalls, sent >>

\* ProcessorExecutor.handle, agent.run raised.
ProcessorFail(w) ==
    /\ Running(w, "processor")
    /\ RunRaises(w, "processor")
    /\ UNCHANGED << aroundVars, workflow, pending_request_id, events_log, credential,
                    analyst_agent, processor_agent, human_gate, open, nCalls, sent >>

\* ---- start, after the await of line 225

\* The request id start keeps: the loop of lines 228-229 leaves the id of
\* the last request-info event, or what was there when there is none.
KeptRequestId(events, before) ==
    LET reqs == SelectSeq(events, IsRequestInfo)
    IN  IF reqs = << >> THEN before ELSE reqs[Len(reqs)].request_id

\* start, lines 225-231, the run returned.
StartReturn(c) ==
    /\ calls[c].kind = "start" /\ calls[c].pc = "run_returned"
    /\ LET result == RunResult(calls[c].ret_produced, TRUE)
           batch == ResultToDicts(result.events, result.timeline)
       IN  /\ pending_request_id' = KeptRequestId(result.events, pending_request_id)
           /\ events_log' = events_log \o batch
           /\ calls' = [calls EXCEPT
                          ![c].pc = "done", ![c].outcome = "ok", ![c].batch = batch,
                          ![c].called = OnEventCalls(result.events, result.timeline,
                                                     calls[c].on_event)]
    /\ UNCHANGED << aroundVars, workflow, credential, analyst_agent, processor_agent,
                    human_gate, open, wf, nCalls, sent >>

\* start, line 225, the run raised: the exception leaves start.
StartRaise(c) ==
    /\ calls[c].kind = "start" /\ calls[c].pc = "run_raised"
    /\ calls' = [calls EXCEPT ![c].pc = "done", ![c].outcome = "error",
                              ![c].error = "stage failed"]
    /\ UNCHANGED << aroundVars, workflow, pending_request_id, events_log, credential,
                    analyst_agent, processor_agent, human_gate, open, wf,
                    nCalls, sent >>

\* ---- submit_decision

\* submit_decision without the test of line 240.
SubmitGuard_NoPendingTest ==
    IF workflow = None THEN "Workflow not started. Call start() first." ELSE ""

\* submit_decision, lines 238-241: the error the guards raise, "" for none.
SubmitGuard ==
    IF workflow = None THEN "Workflow not started. Call start() first."
    ELSE IF pending_request_id = None THEN "No pending request."
    ELSE ""

\* Workflow.send_responses on workflow w for request id: the error the
\* framework raises before running anything, "" for none. A workflow runs
\* one run at a time and knows only the requests it has pending.
SendResponsesError(w, id) ==
    IF wf[w].state = "IN_PROGRESS" THEN "Workflow is already running."
    ELSE IF id \notin wf[w].requests THEN "Unknown request id."
    ELSE ""

\* submit_decision, lines 233-246: the guards, then send_responses on
\* self._workflow under self._pending_request_id; the call awaits the run.
SubmitCall(c, decision, on_event, serial) ==
    /\ MayCall(c, serial)
    /\ nCalls' = c
    /\ LET call == [ NoCall EXCEPT !.kind = "submit", !.arg = decision,
                                   !.on_event = on_event, !.pre = Snapshot ]
           w == workflow
           id == pending_request_id
       IN  IF SubmitGuard # ""
           THEN /\ calls' = [calls EXCEPT ![c] =
                               [ call EXCEPT !.pc = "done", !.outcome = "error",
                                             !.error = SubmitGuard ]]
                /\ UNCHANGED << wf, sent >>
           ELSE /\ sent' = Append(sent, [ call |-> c, w |-> w, request_id |-> id,
                                          decision |-> decision ])
                /\ IF SendResponsesError(w, id) # ""
                   THEN /\ calls' = [calls EXCEPT ![c] =
                                       [ call EXCEPT !.pc = "done", !.outcome = "error",
                                                     !.w = w, !.reqid = id,
                                                     !.error = SendResponsesError(w, id) ]]
                        /\ UNCHANGED wf
                   ELSE /\ calls' = [calls EXCEPT ![c] =
                                       [ call EXCEPT !.pc = "await_send", !.w = w,
                                                     !.reqid = id ]]
                        /\ wf' = [wf EXCEPT
                                    ![w].state = "IN_PROGRESS",
                                    ![w].next = "gate_response",
                                    ![w].response = decision,
                                    ![w].requests = @ \ { id },
                                    ![w].produced = << StatusEvent("IN_PROGRESS") >>,
                                    ![w].awaiter = c]
    /\ UNCHANGED << aroundVars, workflow, pending_request_id, events_log, credential,
                    analyst_agent, processor_agent, human_gate, open >>

\* submit_decision, lines 244-249, send_responses returned: the request id
\* is cleared and the events are logged; _cleanup is awaited next.
SubmitReturn(c) ==
    /\ calls[c].kind = "submit" /\ calls[c].pc = "run_returned"
    /\ LET result == RunResult(calls[c].ret_produced, FALSE)
           batch == ResultToDicts(result.events, result.timeline)
       IN  /\ pending_request_id' = None
           /\ events_log' = events_log \o batch
           /\ calls' = [calls EXCEPT
                          ![c].pc = "cleanup", ![c].batch = batch,
                          ![c].called = OnEventCalls(result.events, result.timeline,
                                                     calls[c].on_event)]
    /\ UNCHANGED << aroundVars, workflow, credential, analyst_agent, processor_agent,
                    human_gate, open, wf, nCalls, sent >>

\* submit_decision, line 244, send_responses raised: the exception leaves
\* submit_decision before line 247.
SubmitRaise(c) ==
    /\ calls[c].kind = "submit" /\ calls[c].pc = "run_raised"
    /\ calls' = [calls EXCEPT ![c].pc = "done", ![c].outcome = "error",
                              ![c].error = "stage failed"]
    /\ UNCHANGED << aroundVars, workflow, pending_request_id, events_log, credential,
                    analyst_agent, processor_agent, human_gate, open, wf,
                    nCalls, sent >>

\* The attributes _cleanup releases, in its order, those that are set.
CleanupOrder ==
    (IF analyst_agent # None THEN << << "analyst_agent", analyst_agent >> >> ELSE << >>)
    \o (IF processor_agent # None THEN << << "processor_agent", processor_agent >> >> ELSE << >>)
    \o (IF credential # None THEN << << "credential", credential >> >> ELSE << >>)

\* A _cleanup without its except clause: a release that raises ends
\* submit_decision with the exception.
SubmitCleanup_Propagates(c, k) ==
    /\ calls[c].kind = "submit" /\ calls[c].pc = "cleanup"
    /\ k \in 0 .. Len(CleanupOrder)
    /\ open' = open \ { CleanupOrder[i] : i \in 1 .. k }
    /\ calls' = [calls EXCEPT ![c].pc = "done",
                              ![c].outcome = IF k < Len(CleanupOrder) THEN "error" ELSE "ok",
                              ![c].batch = IF k < Len(CleanupOrder) THEN << >> ELSE @]
    /\ UNCHANGED << aroundVars, workflow, pending_request_id, events_log, credential,
                    analyst_agent, processor_agent, human_gate, wf, nCalls, sent >>

\* _cleanup and lines 252-253: the first k releases succeed; the next one,
\* if any, raises, which ends _cleanup silently. The batch is returned.
SubmitCleanup(c, k) ==
    /\ calls[c].kind = "submit" /\ calls[c].pc = "cleanup"
    /\ k \in 0 .. Len(CleanupOrder)
    /\ open' = open \ { CleanupOrder[i] : i \in 1 .. k }
    /\ calls' = [calls EXCEPT ![c].pc = "done", ![c].outcome = "ok"]
    /\ UNCHANGED << aroundVars, workflow, pending_request_id, events_log, credential,
                    analyst_agent, processor_agent, human_gate, wf, nCalls, sent >>

\* ---- all_events

\* An all_events that hands out self._events_log itself.
AllEvents_NoCopy == [ list |-> events_log, is_log |-> TRUE ]

\* The all_events property, lines 320-322: list(self._events_log), a new
\* list with the entries of the log.
AllEvents == [ list |-> events_log, is_log |-> FALSE ]

\* The caller reads all_events between two calls and keeps the list.
ReadAllEvents ==
    /\ InFlight = {}
    /\ Len(reads) < MaxReads
    /\ reads' = Append(reads, [ returned |-> AllEvents.list, list |-> AllEvents.list,
                                is_log |-> AllEvents.is_log, at |-> nCalls ])
    /\ UNCHANGED << gcVars, seqVars, twoVars, appVars, workflow, pending_request_id, events_log,
                    credential, analyst_agent, processor_agent, human_gate, open, wf,
                    calls, nCalls, sent >>

\* An entry a caller puts into a list it holds.
CallerEntry == [ type |-> "note", agent |-> "caller", content |-> << >> ]

\* The caller changes the i-th list it got: list.append on that object. When
\* the object is the log, the log is what changes.
ChangeReadList(i) ==
    /\ InFlight = {}
    /\ i \in DOMAIN reads
    /\ reads[i].list = reads[i].returned
    /\ reads' = [reads EXCEPT ![i].list = Append(@, CallerEntry)]
    /\ events_log' = IF reads[i].is_log THEN Append(events_log, CallerEntry) ELSE events_log
    /\ UNCHANGED << gcVars, seqVars, twoVars, appVars, workflow, pending_request_id, credential,
                    analyst_agent, processor_agent, human_gate, open, wf, calls,
                    nCalls, sent >>

\* ------------------------------------------------------------------ the session's behaviours

\* No group chat is run.
GcIdle ==
    /\ gc_pc = "idle"
    /\ gc_turn_order = << >>
    /\ gc_max_rounds = 0
    /\ gc_round = 0
    /\ gc_turn = 0
    /\ gc_iter = 0
    /\ gc_conversation = << >>
    /\ gc_events = << >>
    /\ gc_all_events = << >>
    /\ gc_invoked = << >>
    /\ gc_on_event = FALSE
    /\ gc_called = << >>

\* No sequential run is made.
SeqIdle ==
    /\ seq_pc = "idle"
    /\ seq_ticket = ""
    /\ seq_on_event = FALSE
    /\ seq_messages = << >>
    /\ seq_invoked = << >>
    /\ seq_events_log = << >>
    /\ seq_called = << >>
    /\ seq_open = {}

\* No second pair of sessions is in use.
TwoIdle ==
    /\ two_session = << >>
    /\ two_run = << >>
    /\ two_gate = << >>
    /\ two_gate_class = [ is_none |-> TRUE, list |-> << >> ]
    /\ two_pc = << >>
    /\ two_ncalls = << >>
    /\ two_actor = None

\* The dashboard is not open.
NoRunGhost ==
    [ analyst_runs |-> 0, shown |-> None, decided |-> None, failed |-> FALSE,
      chosen |-> "", leftover |-> "" ]

AppIdle ==
    /\ config_ok = FALSE
    /\ hitl_phase = ""
    /\ hitl_analysis_events = << >>
    /\ hitl_final_events = << >>
    /\ hitl_decision = ""
    /\ app_pc = "closed"
    /\ app_buttons = {}
    /\ app_nsessions = 0
    /\ app_run = NoRunGhost
    /\ app_click = ""

Init == HitlInit /\ GcIdle /\ SeqIdle /\ TwoIdle /\ AppIdle

\* Calls on the session one after the other, without a callback: each is
\* awaited before the next. Between the calls the awaited steps run.
Next ==
    \/ \E c \in CallIds :
          \/ \E e \in Expenses : StartCall(c, e, FALSE, TRUE)
          \/ \E d \in Decisions : SubmitCall(c, d, FALSE, TRUE)
          \/ StartCreateAnalyst(c)
          \/ StartBuildAndRun(c)
          \/ AnalystHandle(c)
          \/ AnalystFail(c)
          \/ GateReceiveAnalysis(c)
          \/ StartReturn(c)
          \/ StartRaise(c)
          \/ GateHandleHumanResponse(c)
          \/ ProcessorHandle(c)
          \/ ProcessorFail(c)
          \/ SubmitReturn(c)
          \/ SubmitRaise(c)
          \/ \E k \in 0 .. 3 : SubmitCleanup(c, k)

Spec == Init /\ [][Next]_vars

\* The same caller also reads all_events between the calls and changes the
\* lists it got.
NextReads ==
    \/ Next
    \/ ReadAllEvents
    \/ \E i \in 1 .. MaxReads : ChangeReadList(i)

SpecReads == Init /\ [][NextReads]_vars

\* Calls on the session from tasks of one event loop: a call may begin
\* while another awaits.
NextConc ==
    \E c \in CallIds :
        \/ \E e \in Expenses : StartCall(c, e, FALSE, FALSE)
        \/ \E d \in Decisions : SubmitCall(c, d, FALSE, FALSE)
        \/ StartCreateAnalyst(c)
        \/ StartBuildAndRun(c)
        \/ AnalystHandle(c)
        \/ AnalystFail(c)
        \/ GateReceiveAnalysis(c)
        \/ StartReturn(c)
        \/ StartRaise(c)
        \/ GateHandleHumanResponse(c)
        \/ ProcessorHandle(c)
        \/ ProcessorFail(c)
        \/ SubmitReturn(c)
        \/ SubmitRaise(c)
        \/ \E k \in 0 .. 3 : SubmitCleanup(c, k)

SpecConc == Init /\ [][NextConc]_vars

\* ------------------------------------------------------------------ GroupChatModerator

\* The participant orders a moderator is configured with; the third is the
\* one run_group_chat_workflow builds.
TurnOrders ==
    { << "ProductManager" >>,
      << "MarketingLead", "EngineeringLead" >>,
      << "MarketingLead", "EngineeringLead", "ProductManager" >>,
      << "ProductManager", "EngineeringLead", "MarketingLead" >>,
      << "EngineeringLead", "MarketingLead" >> }

\* run_group_chat_workflow is about to be called, with or without a
\* callback.
GcInit ==
    /\ gc_pc = "ready"
    /\ gc_turn_order \in TurnOrders
    /\ gc_max_rounds \in 0 .. MaxRounds
    /\ gc_round = 0
    /\ gc_turn = 0
    /\ gc_iter = 0
    /\ gc_conversation = << >>
    /\ gc_events = << >>
    /\ gc_all_events = << >>
    /\ gc_invoked = << >>
    /\ gc_on_event \in BOOLEAN
    /\ gc_called = << >>

\* Lines 218-234 for the entries one streamed event brings: each is
\* appended to all_events and on_event, when given, is called with it.
GcStream(entries) ==
    /\ gc_all_events' = gc_all_events \o entries
    /\ gc_called' = gc_called \o (IF gc_on_event THEN entries ELSE << >>)

\* The entry run_group_chat_workflow makes of a status event, lines 225-232.
GcStatusEntry(state) ==
    [ type |-> "status", agent |-> "workflow", round |-> 0, content |-> << state >> ]

\* The inner loop walking turn_order from its end.
TurnAgent_Reversed == gc_turn_order[Len(gc_turn_order) + 1 - gc_turn]

\* The agent whose turn it is: the inner loop walks turn_order.
TurnAgent == gc_turn_order[gc_turn]

\* What an agent answers to a conversation: a text of its own that differs
\* from turn to turn.
Reply(agent_name, conversation) == << agent_name, ToString(Len(conversation)) >>

\* A turn whose reply joins the conversation without its speaker's name.
AssistantMsg_NoSpeaker(agent_name, reply_text) == ChatMessage("assistant", reply_text)

\* Lines 96-99: the reply as it joins the conversation, tagged with its
\* speaker.
AssistantMsg(agent_name, reply_text) ==
    ChatMessage("assistant", << "[", agent_name, "]: " >> \o reply_text)

\* Lines 111-119: the prompt that asks for the synthesis.
SummaryPrompt == ChatMessage("user", << "summary prompt" >>)

\* The loops of lines 89-90 move on after `done` turns of round `iter`:
\* to the next name, to the first name of the next round (self._round takes
\* the next value of range(max_rounds)), or out of the loops.
LoopAdvance(iter, done) ==
    IF iter >= 1 /\ done < Len(gc_turn_order)
    THEN [ pc |-> "turn", iter |-> iter, turn |-> done + 1, round |-> gc_round ]
    ELSE IF iter < gc_max_rounds
    THEN [ pc |-> "turn", iter |-> iter + 1, turn |-> 1, round |-> iter ]
    ELSE [ pc |-> "synthesis", iter |-> iter, turn |-> done, round |-> gc_round ]

\* run_group_chat_workflow, lines 159-218, and handle_topic, lines 72-90:
\* the stream opens with the status IN_PROGRESS, the moderator frames the
\* conversation and enters the loops.
GcStart ==
    /\ gc_pc = "ready"
    /\ GcStream(<< GcStatusEntry("IN_PROGRESS") >>)
    /\ gc_conversation' = << ChatMessage("user", << "framing" >>) >>
    /\ gc_events' = << >>
    /\ LET to == LoopAdvance(0, 0)
       IN  /\ gc_pc' = to.pc
           /\ gc_iter' = to.iter
           /\ gc_turn' = to.turn
           /\ gc_round' = to.round
    /\ gc_invoked' = << >>
    /\ UNCHANGED << aroundGcVars, gc_turn_order, gc_max_rounds, gc_on_event >>

\* handle_topic, lines 91-108, agent.run returned: the reply joins the
\* conversation tagged with its speaker and the turn is recorded.
GcTurn ==
    /\ gc_pc = "turn"
    /\ LET agent_name == TurnAgent
           reply_text == Reply(agent_name, gc_conversation)
           to == LoopAdvance(gc_iter, gc_turn)
       IN  /\ gc_invoked' = Append(gc_invoked,
                                   [ agent |-> agent_name, messages |-> gc_conversation ])
           /\ gc_conversation' = Append(gc_conversation,
                                        AssistantMsg(agent_name, reply_text))
           /\ gc_events' = Append(gc_events,
                 [ type |-> "group_chat_turn", agent |-> agent_name,
                   round |-> gc_round + 1, content |-> reply_text ])
           /\ gc_pc' = to.pc
           /\ gc_iter' = to.iter
           /\ gc_turn' = to.turn
           /\ gc_round' = to.round
    /\ UNCHANGED << aroundGcVars, gc_turn_order, gc_max_rounds, gc_all_events,
                    gc_on_event, gc_called >>

\* handle_topic, line 92 or 122, agent.run raised: the run fails, the stream
\* ends with the status FAILED and the exception leaves
\* run_group_chat_workflow, which returns no list. The summary prompt has
\* joined the conversation when it is the synthesis that raises.
GcAgentFail ==
    /\ gc_pc \in {"turn", "synthesis"}
    /\ gc_conversation' = IF gc_pc = "turn" THEN gc_conversation
                          ELSE Append(gc_conversation, SummaryPrompt)
    /\ gc_invoked' = Append(gc_invoked,
          [ agent |-> IF gc_pc = "turn" THEN TurnAgent ELSE "ProductManager",
            messages |-> gc_conversation' ])
    /\ GcStream(<< GcStatusEntry("FAILED") >>)
    /\ gc_pc' = "raised"
    /\ UNCHANGED << aroundGcVars, gc_turn_order, gc_max_rounds, gc_round, gc_turn,
                    gc_iter, gc_events, gc_on_event >>

\* handle_topic, lines 110-131, and run_group_chat_workflow, lines 219-224:
\* the summary prompt joins the conversation, the ProductManager agent
\* answers, the output entry ends self._events, and the list is yielded:
\* each entry of it is added to all_events.
GcSynthesis ==
    /\ gc_pc = "synthesis"
    /\ LET prompted == Append(gc_conversation, SummaryPrompt)
           events == Append(gc_events,
                        [ type |-> "output", agent |-> "ProductManager",
                          round |-> gc_round + 1,
                          content |-> Reply("ProductManager", prompted) ])
       IN  /\ gc_conversation' = prompted
           /\ gc_invoked' = Append(gc_invoked,
                                   [ agent |-> "ProductManager", messages |-> prompted ])
           /\ gc_events' = events
           /\ GcStream(events)
    /\ gc_pc' = "yielded"
    /\ UNCHANGED << aroundGcVars, gc_turn_order, gc_max_rounds, gc_round, gc_turn, gc_iter,
                    gc_on_event >>

\* run_group_chat_workflow, lines 225-236: the stream ends with the status
\* IDLE and all_events is returned.
GcReturn ==
    /\ gc_pc = "yielded"
    /\ GcStream(<< GcStatusEntry("IDLE") >>)
    /\ gc_pc' = "returned"
    /\ UNCHANGED << aroundGcVars, gc_turn_order, gc_max_rounds, gc_round, gc_turn,
                    gc_iter, gc_conversation, gc_events, gc_invoked, gc_on_event >>

GcNext == GcStart \/ GcTurn \/ GcAgentFail \/ GcSynthesis \/ GcReturn

InitGC == HitlInit /\ GcInit /\ SeqIdle /\ TwoIdle /\ AppIdle

\* One run of the group chat, for each participant order and round count.
SpecGC == InitGC /\ [][GcNext]_vars

\* ------------------------------------------------------------------ run_sequential_workflow

Tickets == {"charged twice", "cannot log in"}
\* What the agents may answer: the classifier one of its categories, the
\* researcher notes, the responder a reply.
Categories == {"Billing", "Technical", "General"}
KbNotes == {"kb-refunds", "kb-accounts"}
SeqStages == << "classifier", "researcher", "responder" >>
SeqResources == {"credential", "classifier_agent", "researcher_agent", "responder_agent"}

\* A workflow whose classifier is wired to the responder.
SeqSuccessor_SkipsResearcher(stage) ==
    IF stage = "" THEN "classifier"
    ELSE IF stage = "classifier" THEN "responder"
    ELSE "responder"

\* The workflow of lines 154-160: the stage that receives what `stage`
\* sends ("" for the message given to run_stream, which goes to the start
\* executor).
SeqSuccessor(stage) ==
    IF stage = "" THEN "classifier"
    ELSE IF stage = "classifier" THEN "researcher"
    ELSE "responder"

\* The entry the loop of lines 164-185 makes of a streamed event.
SeqEntry(event) ==
    IF event.cls = "WorkflowStatusEvent"
    THEN [type |-> "status", agent |-> "workflow", content |-> event.data]
    ELSE IF event.cls = "WorkflowOutputEvent"
    THEN [type |-> "output", agent |-> "responder", content |-> event.data]
    ELSE [type |-> event.cls, agent |-> event.who, content |-> << event.cls >>]

\* Lines 187-190 for the events the stream yields in one step: each entry is
\* appended to events_log ...
SeqAppended(events) == [i \in 1 .. Len(events) |-> SeqEntry(events[i])]
\* ... and on_event, when given, is called with it.
SeqCalls(events) == IF seq_on_event THEN SeqAppended(events) ELSE << >>

SeqInit ==
    /\ seq_pc = "ready"
    /\ seq_ticket \in Tickets
    /\ seq_on_event \in BOOLEAN
    /\ seq_messages = << >>
    /\ seq_invoked = << >>
    /\ seq_events_log = << >>
    /\ seq_called = << >>
    /\ seq_open = {}

\* The stream yields `events`: the loop body runs for each.
SeqStream(events) ==
    /\ seq_events_log' = seq_events_log \o SeqAppended(events)
    /\ seq_called' = seq_called \o SeqCalls(events)

\* Lines 111-164: the credential and the agents are entered, the workflow
\* is built and run_stream delivers the user message to the classifier.
SeqStart ==
    /\ seq_pc = "ready"
    /\ seq_open' = SeqResources
    /\ seq_messages' = << ChatMessage("user", << seq_ticket >>) >>
    /\ SeqStream(<< StatusEvent("IN_PROGRESS") >>)
    /\ seq_pc' = SeqSuccessor("")
    /\ UNCHANGED << aroundSeqVars, seq_ticket, seq_on_event, seq_invoked >>

\* A classifier that forwards only the agent's answer.
SeqClassifierHandle_DropsTicket(category) ==
    /\ seq_pc = "classifier"
    /\ seq_invoked' = Append(seq_invoked, Invocation("classifier", seq_messages))
    /\ seq_messages' = << ChatMessage("assistant", << "Category: ", category >>) >>
    /\ SeqStream(<< InvokedEvent("classifier"), CompletedEvent("classifier") >>)
    /\ seq_pc' = SeqSuccessor("classifier")
    /\ UNCHANGED << aroundSeqVars, seq_ticket, seq_on_event, seq_open >>

\* ClassifierExecutor.handle, agent.run returned: the answer is appended to
\* [message] and the list is sent to the researcher.
SeqClassifierHandle(category) ==
    /\ seq_pc = "classifier"
    /\ seq_invoked' = Append(seq_invoked, Invocation("classifier", seq_messages))
    /\ seq_messages' = Append(seq_messages,
                              ChatMessage("assistant", << "Category: ", category >>))
    /\ SeqStream(<< InvokedEvent("classifier"), CompletedEvent("classifier") >>)
    /\ seq_pc' = SeqSuccessor("classifier")
    /\ UNCHANGED << aroundSeqVars, seq_ticket, seq_on_event, seq_open >>

\* ResearcherExecutor.handle, agent.run returned: the answer is appended to
\* the received list and the list is sent to the responder.
SeqResearcherHandle(notes) ==
    /\ seq_pc = "researcher"
    /\ seq_invoked' = Append(seq_invoked, Invocation("researcher", seq_messages))
    /\ seq_messages' = Append(seq_messages, ChatMessage("assistant", << notes >>))
    /\ SeqStream(<< InvokedEvent("researcher"), CompletedEvent("researcher") >>)
    /\ seq_pc' = SeqSuccessor("researcher")
    /\ UNCHANGED << aroundSeqVars, seq_ticket, seq_on_event, seq_open >>

\* ResponderExecutor.handle, agent.run returned: its text is yielded as the
\* output; nothing is sent on.
SeqResponderHandle ==
    /\ seq_pc = "responder"
    /\ seq_invoked' = Append(seq_invoked, Invocation("responder", seq_messages))
    /\ SeqStream(<< InvokedEvent("responder"),
                    Event("WorkflowOutputEvent", "responder",
                          << "reply" >> \o seq_messages[Len(seq_messages)].text),
                    CompletedEvent("responder") >>)
    /\ seq_pc' = "closing"
    /\ UNCHANGED << aroundSeqVars, seq_ticket, seq_on_event, seq_messages, seq_open >>

\* A handler's agent.run raised: the stream yields the failure, the
\* exception leaves the async-with blocks, which exit the agents and the
\* credential, and run_sequential_workflow returns no list.
SeqStageFail ==
    /\ seq_pc \in {"classifier", "researcher", "responder"}
    /\ seq_invoked' = Append(seq_invoked, Invocation(seq_pc, seq_messages))
    /\ SeqStream(<< InvokedEvent(seq_pc), FailedEvent(seq_pc),
                    Event("WorkflowFailedEvent", seq_pc, << >>), StatusEvent("FAILED") >>)
    /\ seq_open' = {}
    /\ seq_pc' = "raised"
    /\ UNCHANGED << aroundSeqVars, seq_ticket, seq_on_event, seq_messages >>

\* Lines 164-192: the stream ends with the status IDLE, the async-with
\* blocks exit, events_log is returned.
SeqReturn ==
    /\ seq_pc = "closing"
    /\ SeqStream(<< StatusEvent("IDLE") >>)
    /\ seq_open' = {}
    /\ seq_pc' = "returned"
    /\ UNCHANGED << aroundSeqVars, seq_ticket, seq_on_event, seq_messages, seq_invoked >>

SeqNext ==
    \/ SeqStart
    \/ \E category \in Categories : SeqClassifierHandle(category)
    \/ \E notes \in KbNotes : SeqResearcherHandle(notes)
    \/ SeqResponderHandle
    \/ SeqStageFail
    \/ SeqReturn

InitSeq == HitlInit /\ GcIdle /\ SeqInit /\ TwoIdle /\ AppIdle

\* One run of the sequential pipeline, for each ticket and each answer of
\* the agents.
SpecSeq == InitSeq /\ [][SeqNext]_vars

\* ------------------------------------------------------------------ two sessions side by side

\* Two HumanInTheLoopSession objects, each with calls made one after the
\* other; the steps of the two interleave at the awaits. Each call is
\* followed from the session's fields to the executors of its workflow.
Sessions == {1, 2}

\* The id the framework gives the request of the k-th workflow of session s.
TwoRequestId(s, k) == 10 * k + s

NoRun ==
    [ state |-> "NONE", next |-> "none", msgs |-> << >>, requests |-> {},
      produced |-> << >>, response |-> "" ]

\* A HumanGateExecutor object as __init__ leaves it: no attribute
\* _pending_messages of its own (lines 86-87).
NewGate == [ has_own |-> FALSE, own |-> << >> ]

TwoInit ==
    /\ two_session = [ s \in Sessions |->
                         [ workflow |-> None, pending_request_id |-> None,
                           events_log |-> << >> ] ]
    /\ two_run = [ s \in Sessions |-> NoRun ]
    /\ two_gate = [ s \in Sessions |-> NewGate ]
    /\ two_gate_class = [ is_none |-> TRUE, list |-> << >> ]
    /\ two_pc = [ s \in Sessions |-> "idle" ]
    /\ two_ncalls = [ s \in Sessions |-> 0 ]
    /\ two_actor = None

\* self._pending_messages read on the gate of session s: the object's own
\* attribute when it has one, else the attribute of the class (line 84).
GatePendingMessages(s) ==
    IF two_gate[s].has_own
    THEN [ is_none |-> FALSE, list |-> two_gate[s].own ]
    ELSE two_gate_class

\* A gate that assigns HumanGateExecutor._pending_messages, the attribute of
\* the class.
GateKeep_OnClass(s, messages) ==
    [ gate |-> two_gate, class |-> [ is_none |-> FALSE, list |-> messages ] ]

\* receive_analysis, line 92: self._pending_messages = messages sets the
\* attribute of the object.
GateKeep(s, messages) ==
    [ gate |-> [two_gate EXCEPT ![s] = [ has_own |-> TRUE, own |-> messages ]],
      class |-> two_gate_class ]

TwoMayCall(s) == two_pc[s] = "idle" /\ two_ncalls[s] < MaxSessionCalls

\* start, lines 185-225: agents, executors (a new gate) and workflow are
\* built, self._workflow is replaced and the run begins at the analyst.
TwoStartCall(s, expense_text) ==
    /\ TwoMayCall(s)
    /\ two_ncalls' = [two_ncalls EXCEPT ![s] = @ + 1]
    /\ two_session' = [two_session EXCEPT ![s].workflow = two_ncalls[s] + 1]
    /\ two_run' = [two_run EXCEPT ![s] =
                      [ NoRun EXCEPT !.state = "IN_PROGRESS", !.next = "analyst",
                                     !.msgs = << ChatMessage("user", << expense_text >>) >>,
                                     !.produced = << StatusEvent("IN_PROGRESS") >> ]]
    /\ two_gate' = [two_gate EXCEPT ![s] = NewGate]
    /\ two_pc' = [two_pc EXCEPT ![s] = "await_run"]
    /\ two_actor' = s
    /\ UNCHANGED << aroundTwoVars, two_gate_class >>

TwoRunning(s, stage) == two_run[s].state = "IN_PROGRESS" /\ two_run[s].next = stage

\* AnalystExecutor.handle, agent.run returned.
TwoAnalystHandle(s) ==
    /\ TwoRunning(s, "analyst")
    /\ two_run' = [two_run EXCEPT
                     ![s].msgs = @ \o << ChatMessage("assistant", << "analysis" >> \o @[1].text) >>,
                     ![s].next = "human-gate",
                     ![s].produced = @ \o << InvokedEvent("analyst"), CompletedEvent("analyst") >>]
    /\ two_actor' = s
    /\ UNCHANGED << aroundTwoVars, two_session, two_gate, two_gate_class, two_pc,
                    two_ncalls >>

\* A handler's agent.run raised: the run fails and the exception leaves the
\* call that awaits it (start, line 225; submit_decision, line 244).
TwoStageFail(s) ==
    /\ TwoRunning(s, "analyst") \/ TwoRunning(s, "processor")
    /\ two_run' = [two_run EXCEPT
                     ![s].state = "FAILED", ![s].next = "none",
                     ![s].produced = @ \o << InvokedEvent(two_run[s].next),
                                             FailedEvent(two_run[s].next),
                                             Event("WorkflowFailedEvent", two_run[s].next, << >>),
                                             StatusEvent("FAILED") >>]
    /\ two_pc' = [two_pc EXCEPT ![s] = "idle"]
    /\ two_actor' = s
    /\ UNCHANGED << aroundTwoVars, two_session, two_gate, two_gate_class, two_ncalls >>

\* receive_analysis, lines 89-112, and start, lines 225-231: the gate keeps
\* the messages and raises the request, the run goes idle, start records the
\* request id and logs the batch.
TwoSuspend(s) ==
    /\ TwoRunning(s, "human-gate")
    /\ LET id == TwoRequestId(s, two_session[s].workflow)
           req == [ Event("RequestInfoEvent", "human-gate", AnalysisText(two_run[s].msgs))
                        EXCEPT !.request_id = id ]
           events == two_run[s].produced \o
                       << InvokedEvent("human-gate"), req, CompletedEvent("human-gate"),
                          StatusEvent("IDLE_WITH_PENDING_REQUESTS") >>
           result == RunResult(events, TRUE)
           kept == GateKeep(s, two_run[s].msgs)
       IN  /\ two_gate' = kept.gate
           /\ two_gate_class' = kept.class
           /\ two_run' = [two_run EXCEPT
                            ![s].state = "IDLE_WITH_PENDING_REQUESTS", ![s].next = "none",
                            ![s].requests = @ \cup { id }, ![s].produced = events]
           /\ two_session' = [two_session EXCEPT
                  ![s].pending_request_id =
                      KeptRequestId(result.events, two_session[s].pending_request_id),
                  ![s].events_log = @ \o ResultToDicts(result.events, result.timeline)]
    /\ two_pc' = [two_pc EXCEPT ![s] = "idle"]
    /\ two_actor' = s
    /\ UNCHANGED << aroundTwoVars, two_ncalls >>

\* submit_decision, lines 233-246: the guards, then send_responses, which
\* the framework refuses for a request the workflow does not have pending.
TwoSubmitCall(s, decision) ==
    /\ TwoMayCall(s)
    /\ two_ncalls' = [two_ncalls EXCEPT ![s] = @ + 1]
    /\ IF \/ two_session[s].workflow = None
          \/ two_session[s].pending_request_id = None
          \/ two_session[s].pending_request_id \notin two_run[s].requests
       THEN UNCHANGED << two_run, two_pc >>
       ELSE /\ two_run' = [two_run EXCEPT
                             ![s].state = "IN_PROGRESS", ![s].next = "gate_response",
                             ![s].response = decision,
                             ![s].requests = @ \ { two_session[s].pending_request_id },
                             ![s].produced = << StatusEvent("IN_PROGRESS") >>]
            /\ two_pc' = [two_pc EXCEPT ![s] = "await_send"]
    /\ two_actor' = s
    /\ UNCHANGED << aroundTwoVars, two_session, two_gate, two_gate_class >>

\* handle_human_response, lines 114-124: the decision is appended to the
\* list self._pending_messages names (a new list when it is None or empty)
\* and the list is sent to the processor.
TwoGateResponse(s) ==
    /\ TwoRunning(s, "gate_response")
    /\ LET kept == GatePendingMessages(s)
           fresh == kept.is_none \/ kept.list = << >>
           messages == (IF fresh THEN << >> ELSE kept.list)
                         \o << ChatMessage("user", << "Manager decision: ", two_run[s].response >>) >>
       IN  /\ two_gate' = IF ~fresh /\ two_gate[s].has_own
                          THEN [two_gate EXCEPT ![s].own = messages] ELSE two_gate
           /\ two_gate_class' = IF ~fresh /\ ~two_gate[s].has_own
                                THEN [two_gate_class EXCEPT !.list = messages]
                                ELSE two_gate_class
           /\ two_run' = [two_run EXCEPT
                            ![s].msgs = messages, ![s].next = "processor",
                            ![s].produced = @ \o << InvokedEvent("human-gate"),
                                                    CompletedEvent("human-gate") >>]
    /\ two_actor' = s
    /\ UNCHANGED << aroundTwoVars, two_session, two_pc, two_ncalls >>

\* ProcessorExecutor.handle, agent.run returned, and submit_decision, lines
\* 244-253: the output is yielded, the run goes idle, the request id is
\* cleared and the batch is logged.
TwoProcessorHandle(s) ==
    /\ TwoRunning(s, "processor")
    /\ LET out == Event("WorkflowOutputEvent", "processor",
                        << "processed" >> \o two_run[s].msgs[Len(two_run[s].msgs)].text)
           events == two_run[s].produced \o
                       << InvokedEvent("processor"), out, CompletedEvent("processor"),
                          StatusEvent("IDLE") >>
           result == RunResult(events, FALSE)
       IN  /\ two_run' = [two_run EXCEPT ![s].state = "IDLE", ![s].next = "none",
                                         ![s].produced = events]
           /\ two_session' = [two_session EXCEPT
                  ![s].pending_request_id = None,
                  ![s].events_log = @ \o ResultToDicts(result.events, result.timeline)]
    /\ two_pc' = [two_pc EXCEPT ![s] = "idle"]
    /\ two_actor' = s
    /\ UNCHANGED << aroundTwoVars, two_gate, two_gate_class, two_ncalls >>

TwoNext ==
    \E s \in Sessions :
        \/ \E e \in Expenses : TwoStartCall(s, e)
        \/ \E d \in Decisions : TwoSubmitCall(s, d)
        \/ TwoAnalystHandle(s)
        \/ TwoStageFail(s)
        \/ TwoSuspend(s)
        \/ TwoGateResponse(s)
        \/ TwoProcessorHandle(s)

InitTwo == HitlInit /\ GcIdle /\ SeqIdle /\ TwoInit /\ AppIdle

SpecTwo == InitTwo /\ [][TwoNext]_vars

\* ------------------------------------------------------------------ the dashboard (app.py)

\* The decisions the decision phase offers, by button (lines 286-307).
AppDecision(button) ==
    IF button = "hitl_approve" THEN "Approved - within policy"
    ELSE IF button = "hitl_reject" THEN "Rejected - budget allocated"
    ELSE IF button = "hitl_moreinfo" THEN "Need More Info"
    ELSE "custom decision"

DecisionButtons == {"hitl_approve", "hitl_reject", "hitl_moreinfo", "hitl_custom_submit"}

\* What a script run is started by: a click on a button, or anything else
\* that makes the page run again ("").
Clicks == {"", "hitl_submit", "hitl_reset"} \cup DecisionButtons

\* A page whose Submit for Analysis button is enabled in every phase.
ButtonsDrawn_SubmitInEveryPhase(phase_at_submit, phase_at_decision) ==
    (IF config_ok THEN {"hitl_submit"} ELSE {})
    \cup {"hitl_reset"}
    \cup (IF phase_at_decision = "decision" THEN DecisionButtons ELSE {})

\* The buttons a script run draws enabled: Submit for Analysis with the
\* phase it finds at line 237, Reset always, the decision buttons with the
\* phase it finds at line 279.
ButtonsDrawn(phase_at_submit, phase_at_decision) ==
    (IF config_ok /\ phase_at_submit = "input" THEN {"hitl_submit"} ELSE {})
    \cup {"hitl_reset"}
    \cup (IF phase_at_decision = "decision" THEN DecisionButtons ELSE {})

\* The page after its first script run: lines 209-214.
AppInit ==
    /\ config_ok \in BOOLEAN
    /\ hitl_phase = "input"
    /\ hitl_analysis_events = << >>
    /\ hitl_final_events = << >>
    /\ hitl_decision = ""
    /\ app_pc = "idle"
    /\ app_buttons = (IF config_ok THEN {"hitl_submit"} ELSE {}) \cup {"hitl_reset"}
    /\ app_nsessions = 0
    /\ app_run = NoRunGhost
    /\ app_click = ""

\* session = HumanInTheLoopSession(): the script's session is a new object.
NewSession ==
    /\ workflow' = None
    /\ pending_request_id' = None
    /\ events_log' = << >>
    /\ credential' = None
    /\ analyst_agent' = None
    /\ processor_agent' = None
    /\ human_gate' = None
    /\ open' = {}
    /\ wf' = [w \in CallIds |-> NoWorkflow]
    /\ calls' = [c \in CallIds |-> NoCall]
    /\ nCalls' = 0
    /\ sent' = << >>
    /\ reads' = << >>
    /\ app_nsessions' = app_nsessions + 1

SameSession ==
    UNCHANGED << workflow, pending_request_id, events_log, credential, analyst_agent,
                 processor_agent, human_gate, open, wf, calls, nCalls, sent, reads,
                 app_nsessions >>

\* A Reset that leaves the event lists as they are.
Reset_KeepsEvents ==
    /\ hitl_phase' = "input"
    /\ UNCHANGED << hitl_analysis_events, hitl_final_events >>

\* Lines 243-245: what a click on Reset assigns.
Reset ==
    /\ hitl_phase' = "input"
    /\ hitl_analysis_events' = << >>
    /\ hitl_final_events' = << >>

\* Lines 151 and 410: the run buttons of the other two tabs are drawn
\* enabled by every script run when the configuration is valid.
SeqRunEnabled == config_ok

GcRunEnabled_Always == TRUE

GcRunEnabled == config_ok

\* One run of the script through the human-in-the-loop tab, up to the end
\* of the tab, to st.rerun() or to the point where it waits for a workflow
\* (lines 237-342 without the workflow calls). The script comes to the tab
\* with the click that started it, or with none after a rerun or after the
\* run of tab 1; a click on Start Brainstorm passes through to tab 3.
AppScript(click) ==
    /\ \/ /\ app_pc = "idle"
          /\ click \in app_buttons \cup {""} \cup (IF GcRunEnabled THEN {"gc_run"} ELSE {})
       \/ app_pc \in {"rerun", "tab2"} /\ click = ""
    /\ app_click' = IF click = "gc_run" /\ hitl_phase \in {"analyzing", "processing"}
                    THEN click ELSE ""
    /\ IF click = "hitl_submit"
       THEN /\ hitl_phase' = "analyzing"
            /\ app_pc' = "rerun"
            /\ app_run' = [ NoRunGhost EXCEPT !.leftover = hitl_decision ]
            /\ SameSession
            /\ UNCHANGED << hitl_analysis_events, hitl_final_events, hitl_decision,
                            app_buttons >>
       ELSE IF click = "hitl_reset"
       THEN /\ Reset
            /\ app_pc' = "rerun"
            /\ SameSession
            /\ UNCHANGED << hitl_decision, app_buttons, app_run >>
       ELSE IF hitl_phase \in {"analyzing", "processing"}
       THEN /\ app_nsessions < MaxAppSessions
            /\ NewSession
            /\ app_pc' = hitl_phase
            /\ UNCHANGED << hitl_phase, hitl_analysis_events, hitl_final_events,
                            hitl_decision, app_buttons, app_run >>
       ELSE IF hitl_phase = "decision" /\ click \in DecisionButtons
       THEN /\ hitl_decision' = AppDecision(click)
            /\ hitl_phase' = "processing"
            /\ app_pc' = "rerun"
            /\ app_run' = [ app_run EXCEPT !.chosen = AppDecision(click) ]
            /\ SameSession
            /\ UNCHANGED << hitl_analysis_events, hitl_final_events, app_buttons >>
       ELSE /\ app_pc' = IF click = "gc_run" THEN "tab3" ELSE "idle"
            /\ app_buttons' = ButtonsDrawn(hitl_phase, hitl_phase)
            /\ SameSession
            /\ UNCHANGED << hitl_phase, hitl_analysis_events, hitl_final_events,
                            hitl_decision, app_run >>
    /\ UNCHANGED << aroundAppVars, config_ok >>

\* Lines 257-258 and 319-320: the script calls start on its new session.
AppCallStart ==
    /\ app_pc \in {"analyzing", "processing"}
    /\ nCalls = 0
    /\ \E e \in Expenses : StartCall(1, e, FALSE, TRUE)

\* A processing phase that submits the fallback whatever was chosen.
DecisionSubmitted_Fallback == "Approved"

\* Line 312: the decision the processing phase submits.
DecisionSubmitted == IF hitl_decision = "" THEN "Approved" ELSE hitl_decision

\* Line 321: start returned, the script calls submit_decision on the same
\* session.
AppCallSubmit ==
    /\ app_pc = "processing"
    /\ nCalls = 1 /\ calls[1].pc = "done" /\ calls[1].outcome = "ok"
    /\ SubmitCall(2, DecisionSubmitted, FALSE, TRUE)

\* How often the script's session called its Analyst.
AnalystRuns ==
    LET n(w) == Len(SelectSeq(wf[w].invoked, LAMBDA i : i.stage = "analyst"))
    IN  n(1) + n(2) + n(3)

\* Lines 258-267: start returned or raised in the analyzing phase.
AppAnalysisEnds ==
    /\ app_pc = "analyzing"
    /\ nCalls = 1 /\ calls[1].pc = "done"
    /\ IF calls[1].outcome = "ok"
       THEN /\ hitl_analysis_events' = calls[1].batch
            /\ hitl_phase' = "decision"
            /\ app_pc' = "rerun"
            /\ app_buttons' = app_buttons
            /\ app_run' = [ app_run EXCEPT !.analyst_runs = @ + AnalystRuns,
                                            !.shown = app_nsessions ]
       ELSE /\ hitl_phase' = "input"
            /\ app_pc' = "idle"
            /\ app_buttons' = ButtonsDrawn("analyzing", "input")
            /\ app_run' = [ app_run EXCEPT !.analyst_runs = @ + AnalystRuns ]
            /\ UNCHANGED hitl_analysis_events
    /\ UNCHANGED << hitlVars, aroundAppVars, config_ok, hitl_final_events, hitl_decision,
                    app_nsessions, app_click >>

\* Lines 317-331: _run_hitl_end_to_end returned or raised in the processing
\* phase.
AppProcessingEnds ==
    /\ app_pc = "processing"
    /\ \/ nCalls = 1 /\ calls[1].pc = "done" /\ calls[1].outcome = "error"
       \/ nCalls = 2 /\ calls[2].pc = "done"
    /\ IF nCalls = 2 /\ calls[2].outcome = "ok"
       THEN /\ hitl_final_events' = calls[2].batch
            /\ hitl_phase' = "done"
            /\ app_pc' = "rerun"
            /\ app_buttons' = app_buttons
            /\ app_run' = [ app_run EXCEPT !.analyst_runs = @ + AnalystRuns,
                                            !.decided = app_nsessions ]
       ELSE /\ app_pc' = IF app_click = "gc_run" THEN "tab3" ELSE "idle"
            /\ app_buttons' = ButtonsDrawn("processing", "processing")
            /\ app_run' = [ app_run EXCEPT
                               !.analyst_runs = @ + AnalystRuns,
                               !.decided = IF nCalls = 2 THEN app_nsessions ELSE @,
                               !.failed = TRUE ]
            /\ UNCHANGED << hitl_final_events, hitl_phase >>
    /\ app_click' = ""
    /\ UNCHANGED << hitlVars, aroundAppVars, config_ok, hitl_analysis_events,
                    hitl_decision, app_nsessions >>

AppNext ==
    \/ \E click \in Clicks : AppScript(click)
    \/ AppCallStart
    \/ AppCallSubmit
    \/ AppAnalysisEnds
    \/ AppProcessingEnds
    \/ \E c \in CallIds :
          \/ StartCreateAnalyst(c)
          \/ StartBuildAndRun(c)
          \/ AnalystHandle(c)
          \/ AnalystFail(c)
          \/ GateReceiveAnalysis(c)
          \/ StartReturn(c)
          \/ StartRaise(c)
          \/ GateHandleHumanResponse(c)
          \/ ProcessorHandle(c)
          \/ ProcessorFail(c)
          \/ SubmitReturn(c)
          \/ SubmitRaise(c)
          \/ \E k \in 0 .. 3 : SubmitCleanup(c, k)

InitApp == HitlInit /\ GcIdle /\ SeqIdle /\ TwoIdle /\ AppInit

\* The human-in-the-loop tab: the script runs on every click and rerun and
\* drives the sessions it creates.
SpecApp == InitApp /\ [][AppNext]_vars

\* The steps of the calls in flight on the session.
SessionStep(c) ==
    \/ StartCreateAnalyst(c)
    \/ StartBuildAndRun(c)
    \/ AnalystHandle(c)
    \/ AnalystFail(c)
    \/ GateReceiveAnalysis(c)
    \/ StartReturn(c)
    \/ StartRaise(c)
    \/ GateHandleHumanResponse(c)
    \/ ProcessorHandle(c)
    \/ ProcessorFail(c)
    \/ SubmitReturn(c)
    \/ SubmitRaise(c)
    \/ \E k \in 0 .. 3 : SubmitCleanup(c, k)

\* ---- the other two tabs

\* Lines 151-162: a click on Run Sequential Workflow starts a script run
\* whose first tab calls run_sequential_workflow with the ticket of the text
\* area and a callback.
PageSeqClick ==
    /\ app_pc = "idle"
    /\ SeqRunEnabled
    /\ seq_pc = "idle"
    /\ seq_pc' = "ready"
    /\ seq_ticket' \in Tickets
    /\ seq_on_event' = TRUE
    /\ app_pc' = "seq_run"
    /\ UNCHANGED << hitlVars, gcVars, twoVars, seq_messages, seq_invoked, seq_events_log,
                    seq_called, seq_open, config_ok, hitl_phase, hitl_analysis_events,
                    hitl_final_events, hitl_decision, app_buttons, app_nsessions,
                    app_run, app_click >>

\* The steps of the sequential run the script waits for.
PageSeqStep == app_pc = "seq_run" /\ SeqNext

\* Lines 162-179: run_sequential_workflow returned or raised; the events are
\* shown or the error is, and the script goes on to the second tab. Its
\* local variables end with the script run.
PageSeqEnds ==
    /\ app_pc = "seq_run"
    /\ seq_pc \in {"returned", "raised"}
    /\ seq_pc' = "idle"
    /\ seq_ticket' = ""
    /\ seq_on_event' = FALSE
    /\ seq_messages' = << >>
    /\ seq_invoked' = << >>
    /\ seq_events_log' = << >>
    /\ seq_called' = << >>
    /\ seq_open' = {}
    /\ app_pc' = "tab2"
    /\ UNCHANGED << hitlVars, gcVars, twoVars, config_ok, hitl_phase, hitl_analysis_events,
                    hitl_final_events, hitl_decision, app_buttons, app_nsessions,
                    app_run, app_click >>

\* Lines 410-417: the script reaches the third tab with a click on Start
\* Brainstorm and calls run_group_chat_workflow with the rounds of the
\* slider and no callback; the participants are those the workflow builds.
PageGcStart ==
    /\ app_pc = "tab3"
    /\ gc_pc = "idle"
    /\ gc_pc' = "ready"
    /\ gc_turn_order' = << "MarketingLead", "EngineeringLead", "ProductManager" >>
    /\ gc_max_rounds' \in 1 .. MaxRounds
    /\ app_pc' = "gc_run"
    /\ UNCHANGED << hitlVars, seqVars, twoVars, gc_round, gc_turn, gc_iter, gc_conversation,
                    gc_events, gc_all_events, gc_invoked, gc_on_event, gc_called,
                    config_ok, hitl_phase, hitl_analysis_events, hitl_final_events,
                    hitl_decision, app_buttons, app_nsessions, app_run, app_click >>

\* The steps of the group chat the script waits for.
PageGcStep == app_pc = "gc_run" /\ GcNext

\* Lines 417-441: run_group_chat_workflow returned or raised; the chat is
\* shown or the error is, and the script run ends.
PageGcEnds ==
    /\ app_pc = "gc_run"
    /\ gc_pc \in {"returned", "raised"}
    /\ gc_pc' = "idle"
    /\ gc_turn_order' = << >>
    /\ gc_max_rounds' = 0
    /\ gc_round' = 0
    /\ gc_turn' = 0
    /\ gc_iter' = 0
    /\ gc_conversation' = << >>
    /\ gc_events' = << >>
    /\ gc_all_events' = << >>
    /\ gc_invoked' = << >>
    /\ gc_on_event' = FALSE
    /\ gc_called' = << >>
    /\ app_pc' = "idle"
    /\ UNCHANGED << hitlVars, seqVars, twoVars, config_ok, hitl_phase, hitl_analysis_events,
                    hitl_final_events, hitl_decision, app_buttons, app_nsessions,
                    app_run, app_click >>

\* Every button of the three tabs.
PageClicks == Clicks \cup {"gc_run"}

PageNext ==
    \/ \E click \in PageClicks : AppScript(click)
    \/ AppCallStart
    \/ AppCallSubmit
    \/ AppAnalysisEnds
    \/ AppProcessingEnds
    \/ \E c \in CallIds : SessionStep(c)
    \/ PageSeqClick
    \/ PageSeqStep
    \/ PageSeqEnds
    \/ PageGcStart
    \/ PageGcStep
    \/ PageGcEnds

\* The whole page: the script runs its three tabs on every click and rerun.
SpecPage == InitApp /\ [][PageNext]_vars

\* ------------------------------------------------------------------ the three demos

\* Calls on the session one after the other, each with or without an
\* on_event callback.
SessionNext ==
    /\ gc_pc = "idle" /\ seq_pc = "idle"
    /\ \E c \in CallIds :
          \/ \E e \in Expenses, cb \in BOOLEAN : StartCall(c, e, cb, TRUE)
          \/ \E d \in Decisions, cb \in BOOLEAN : SubmitCall(c, d, cb, TRUE)
          \/ SessionStep(c)

\* A behaviour is a run of one of the three workflows: a sequential run, a
\* group chat, or calls on a human-in-the-loop session.
InitDemos ==
    /\ HitlInit /\ TwoIdle /\ AppIdle
    /\ \/ GcIdle /\ SeqIdle
       \/ GcInit /\ SeqIdle
       \/ GcIdle /\ SeqInit

DemosNext == SessionNext \/ GcNext \/ SeqNext

SpecDemos == InitDemos /\ [][DemosNext]_vars

\* ------------------------------------------------------------------ properties of the session

\* No call is in flight: the states a caller sees between calls.
Quiescent == InFlight = {}

\* The session waits for a decision: the workflow it holds went idle with
\* the gate's request pending.
Suspended == Quiescent /\ RunState = "IDLE_WITH_PENDING_REQUESTS"

Sends(c) == { i \in DOMAIN sent : sent[i].call = c }

\* C1: between calls, the session is suspended if and only if it holds a
\* pending request id.
C1_SuspendedIffPending ==
    Quiescent => (Suspended <=> pending_request_id # None)

\* C2: a submit_decision that finds no pending request id ends in an error
\* and calls send_responses on no workflow.
C2_SubmitWithoutPendingFails ==
    \A c \in CallIds :
        (calls[c].kind = "submit" /\ calls[c].pre.pending = None)
            => /\ calls[c].pc = "done"
               /\ calls[c].outcome = "error"
               /\ Sends(c) = {}

\* A submit_decision was rejected on a started session whose start did not
\* suspend, and one on a session never started.
C2_Witness ==
    /\ \E c \in CallIds :
          /\ calls[c].kind = "submit" /\ calls[c].pre.pending = None
          /\ calls[c].pre.workflow # None /\ calls[c].outcome = "error"
    /\ \E c \in CallIds :
          /\ calls[c].kind = "submit" /\ calls[c].pre.workflow = None
          /\ calls[c].outcome = "error"

\* C3: a start on a session that was started before is rejected: it ends
\* in an error and leaves run state, request id and log as they were.
C3_SecondStartRejected ==
    \A c \in CallIds :
        (calls[c].kind = "start" /\ \E b \in 1 .. c - 1 : calls[b].kind = "start")
            => /\ calls[c].pc = "done"
               /\ calls[c].outcome = "error"
               /\ nCalls = c => /\ workflow = calls[c].pre.workflow
                                /\ pending_request_id = calls[c].pre.pending
                                /\ events_log = calls[c].pre.log

\* C4: no request id is passed to send_responses twice, and a
\* submit_decision that follows a successful one sends nothing.
C4_RequestSingleUse ==
    /\ \A i, j \in DOMAIN sent :
          (sent[i].w = sent[j].w /\ sent[i].request_id = sent[j].request_id) => i = j
    /\ \A c \in CallIds \ {1} :
          (calls[c].kind = "submit" /\ calls[c - 1].kind = "submit"
             /\ calls[c - 1].outcome = "ok")
            => (calls[c].outcome = "error" /\ Sends(c) = {})

\* C5: a submit_decision on a session whose run has failed ends in an error
\* and sends no response.
C5_NoResumeAfterFailure ==
    \A c \in CallIds :
        (calls[c].kind = "submit" /\ calls[c].pre.state = "FAILED")
            => (calls[c].outcome = "error" /\ Sends(c) = {})

\* C7: a submit_decision called right after a start that suspended leaves
\* the run completed or failed, never waiting for a decision with no
\* request id held.
C7_SubmitAfterStartTerminates ==
    \A c \in CallIds \ {1} :
        ( /\ nCalls = c /\ calls[c].pc = "done" /\ calls[c].kind = "submit"
          /\ calls[c - 1].kind = "start" /\ calls[c - 1].outcome = "ok"
          /\ calls[c].pre.pending # None )
            => /\ RunState \in {"IDLE", "FAILED"}
               /\ calls[c].outcome = "ok" => RunState = "IDLE" /\ pending_request_id = None
               /\ calls[c].outcome = "error" => RunState = "FAILED"
               /\ ~ (RunState = "IDLE_WITH_PENDING_REQUESTS" /\ pending_request_id = None)

\* start suspended, the next call was submit_decision, and it returned.
C7_Witness ==
    \E c \in CallIds \ {1} :
        /\ nCalls = c /\ calls[c].pc = "done" /\ calls[c].kind = "submit"
        /\ calls[c - 1].kind = "start" /\ calls[c - 1].outcome = "ok"
        /\ calls[c].pre.pending # None /\ calls[c].pre.state = "IDLE_WITH_PENDING_REQUESTS"
        /\ calls[c].outcome = "ok"

\* C8: when a stage's agent call fails, the run is failed, the log holds an
\* entry that records the failed stage, and no later stage ran.
C8_StageFailureLogged ==
    \A c \in CallIds :
        (calls[c].pc = "done" /\ calls[c].error = "stage failed")
            => /\ wf[calls[c].w].state = "FAILED"
               /\ wf[calls[c].w].next = "none"
               /\ \E i \in DOMAIN events_log :
                     /\ events_log[i].type \in {"ExecutorFailedEvent", "WorkflowFailedEvent"}
                     /\ events_log[i].agent \in {"analyst", "human-gate", "processor"}

\* C9: a call that begins while another call is in flight is rejected.
C9_CallsSerialized ==
    \A c \in CallIds :
        (calls[c].kind # "none" /\ calls[c].pre.inflight > 0)
            => (calls[c].pc = "done" /\ calls[c].outcome = "error" /\ Sends(c) = {})

\* C10: the batch a call returns is the events its run produced, one entry
\* per event, in the order of production.
C10_BatchInProductionOrder ==
    \A c \in CallIds :
        calls[c].batch # << >> => calls[c].batch = EventsToDicts(calls[c].ret_produced)

\* The batches the calls returned, in call order, one after the other.
RECURSIVE BatchesUpTo(_)
BatchesUpTo(c) == IF c = 0 THEN << >> ELSE BatchesUpTo(c - 1) \o calls[c].batch

IsPrefix(s, t) == Len(s) <= Len(t) /\ SubSeq(t, 1, Len(s)) = s

\* C11: every earlier read of all_events is a prefix of every later read,
\* two reads with no call in between are equal, between calls the log is the
\* batches the calls returned, in call order, and a change the caller made
\* to a list it got from all_events is not in the log.
C11_LogAppendOnly ==
    /\ \A i, j \in DOMAIN reads :
          i < j => /\ IsPrefix(reads[i].returned, reads[j].returned)
                   /\ reads[i].at = reads[j].at => reads[i].returned = reads[j].returned
    /\ Quiescent => events_log = BatchesUpTo(nCalls)
    /\ \A i \in DOMAIN events_log : events_log[i] # CallerEntry

\* The caller read the log after a start, changed the list it got, and read
\* a longer log after the submit_decision that completed the run.
C11_Witness ==
    /\ Len(reads) = 2
    /\ reads[1].returned # << >>
    /\ reads[1].list # reads[1].returned
    /\ Len(reads[2].returned) > Len(reads[1].returned)
    /\ Quiescent /\ RunState = "IDLE"
    /\ \E c \in CallIds : calls[c].kind = "submit" /\ calls[c].outcome = "ok"

\* The stages of workflow w that were called, in order.
StagesInvoked(w) == [ i \in DOMAIN wf[w].invoked |-> wf[w].invoked[i].stage ]

IsOutput(entry) == entry.type = "output"

\* C12: the Processor of a run is called only after a submit_decision has
\* sent a response to that run, and while the session holds the id of a
\* request that waits for its response the log holds no output entry.
C12_OnlyTheGateSuspends ==
    /\ \A w \in CallIds :
          (Running(w, "processor") \/ \E i \in DOMAIN wf[w].invoked :
                                         wf[w].invoked[i].stage = "processor")
             => \E i \in DOMAIN sent : sent[i].w = w
    /\ (pending_request_id # None /\ workflow # None
            /\ pending_request_id \in wf[workflow].requests)
          => \A i \in DOMAIN events_log : ~IsOutput(events_log[i])

\* C13: when a submit_decision succeeded, the Processor of its run was called
\* with the messages the gate received when the run suspended, in their
\* order, followed by one message that carries the decision, and the run
\* called the Analyst once, before the gate.
C13_ResumeKeepsContext ==
    \A c \in CallIds :
        (calls[c].kind = "submit" /\ calls[c].outcome = "ok")
            => LET run == wf[calls[c].w].invoked
               IN  /\ StagesInvoked(calls[c].w) = << "analyst", "human-gate", "processor" >>
                   /\ run[3].context =
                         run[2].context
                           \o << ChatMessage("user", << "Manager decision: ", calls[c].arg >>) >>

\* A submit_decision succeeded on a run whose gate had received the expense
\* and the analysis.
C13_Witness ==
    \E c \in CallIds :
        /\ calls[c].kind = "submit" /\ calls[c].outcome = "ok"
        /\ Len(wf[calls[c].w].invoked) = 3
        /\ Len(wf[calls[c].w].invoked[2].context) = 2
        /\ Len(wf[calls[c].w].invoked[3].context) = 3

\* ------------------------------------------------------------------ properties of the sequential run

SeqStagesInvoked == [ i \in DOMAIN seq_invoked |-> seq_invoked[i].stage ]

SeqOutputs == SelectSeq(seq_events_log, IsOutput)

\* C14: the handlers called so far are the first stages of classifier,
\* researcher, responder, each once; a stage is called only when the stage
\* before it has sent its messages on; an output entry exists only once the
\* responder was called, and a run that returned has exactly one.
C14_StagesInOrder ==
    /\ Len(seq_invoked) <= 3
    /\ SeqStagesInvoked = SubSeq(SeqStages, 1, Len(seq_invoked))
    /\ \A i \in DOMAIN seq_invoked :
          i > 1 => /\ Len(seq_invoked[i].context) = Len(seq_invoked[i - 1].context) + 1
                   /\ seq_invoked[i].context[Len(seq_invoked[i].context)].role = "assistant"
    /\ seq_pc = "researcher" => SeqStagesInvoked = << "classifier" >>
    /\ seq_pc = "responder" => SeqStagesInvoked = << "classifier", "researcher" >>
    /\ Len(SeqOutputs) <= 1
    /\ SeqOutputs # << >> => SeqStagesInvoked = SeqStages
    /\ seq_pc = "returned" => Len(SeqOutputs) = 1

\* A run returned its list: the three stages ran and the output is there.
C14_Witness ==
    /\ seq_pc = "returned"
    /\ SeqStagesInvoked = SeqStages
    /\ Len(SeqOutputs) = 1
    /\ Len(seq_invoked[3].context) = 3

\* A start returned and its run had raised a request.
StartSuspended(c) ==
    /\ calls[c].kind = "start" /\ calls[c].outcome = "ok"
    /\ \E i \in DOMAIN calls[c].ret_produced : IsRequestInfo(calls[c].ret_produced[i])

\* C18: the batch of a start that returned with a request recorded begins
\* with one entry for each event the run produced up to its suspension, in
\* order, holds a request_info entry of the human gate and no output entry.
C18_StartBatchUpToSuspension ==
    \A c \in CallIds :
        StartSuspended(c)
            => /\ IsPrefix(EventsToDicts(calls[c].ret_produced), calls[c].batch)
               /\ \E i \in DOMAIN calls[c].batch :
                     /\ calls[c].batch[i].type = "request_info"
                     /\ calls[c].batch[i].agent = "human-gate"
               /\ \A i \in DOMAIN calls[c].batch : ~IsOutput(calls[c].batch[i])

\* A start returned with its request recorded on the session.
C18_Witness ==
    \E c \in CallIds :
        /\ StartSuspended(c)
        /\ nCalls = c
        /\ pending_request_id = RequestId(calls[c].w)
        /\ Len(calls[c].batch) >= 7

\* The starts before call c that returned with a request recorded.
StartsRecorded(c) == { b \in 1 .. c - 1 : StartSuspended(b) }

\* The largest member of a non-empty set of call ids.
Latest(S) == CHOOSE b \in S : \A a \in S : a <= b

\* C21: every response submit_decision sends goes out under the id of the
\* request the session's latest suspended start recorded, and to the
\* workflow that raised that request, so that the one request of that start
\* is the one answered.
C21_AnswersRecordedRequest ==
    \A i \in DOMAIN sent :
        /\ StartsRecorded(sent[i].call) # {}
        /\ LET s == Latest(StartsRecorded(sent[i].call))
           IN  /\ \A k \in DOMAIN calls[s].ret_produced :
                     IsRequestInfo(calls[s].ret_produced[k])
                        => calls[s].ret_produced[k].request_id = sent[i].request_id
               /\ sent[i].w = calls[s].w

\* C24: a submit_decision that begins on a session with no workflow or no
\* pending request ends at once with an error and changes nothing: the log,
\* the pending request id, the workflow and its run are as before, no stage
\* is invoked, nothing is sent, on_event is not called and no resource is
\* released.
C24_RejectedSubmitChangesNothing ==
    [][ \A c \in CallIds :
           ( /\ calls[c].kind = "none" /\ calls'[c].kind = "submit"
             /\ (workflow = None \/ pending_request_id = None) )
           => /\ calls'[c].pc = "done" /\ calls'[c].outcome = "error"
              /\ calls'[c].called = << >> /\ calls'[c].batch = << >>
              /\ UNCHANGED << workflow, pending_request_id, events_log, wf, sent, open,
                              credential, analyst_agent, processor_agent, human_gate >>
      ]_vars

\* A submit_decision given a callback was rejected for want of a pending
\* request on a session that holds a log and unreleased resources.
C24_Witness ==
    \E c \in CallIds :
        /\ calls[c].kind = "submit" /\ calls[c].pc = "done"
        /\ calls[c].error = "No pending request."
        /\ calls[c].on_event
        /\ events_log # << >>
        /\ open # {}

\* C25: when a submit_decision that called send_responses has ended, also
\* with the exception send_responses raised, and is the session's last
\* call, the session holds no analyst agent, processor agent or credential
\* unreleased.
C25_SubmitReleasesResources ==
    \A c \in CallIds :
        ( /\ calls[c].kind = "submit" /\ calls[c].pc = "done"
          /\ Sends(c) # {}
          /\ c = nCalls
          /\ calls[c].outcome = "error" )
        => open = {}

\* The run send_responses started for call c came back without failing.
Resumed(c) ==
    /\ calls[c].kind = "submit"
    /\ calls[c].ret_produced # << >>
    /\ calls[c].ret_produced[Len(calls[c].ret_produced)] # StatusEvent("FAILED")

\* The entries _result_to_dicts makes of what that run handed back.
BatchOf(c) ==
    LET result == RunResult(calls[c].ret_produced, FALSE)
    IN  ResultToDicts(result.events, result.timeline)

IsSuffix(s, t) ==
    Len(s) <= Len(t) /\ SubSeq(t, Len(t) - Len(s) + 1, Len(t)) = s

\* C26: a submit_decision whose send_responses returned ends by returning
\* the batch of that run whatever the releases of _cleanup do, and when it
\* has ended, the pending request id is cleared and the log ends with the
\* batch.
C26_CleanupErrorsSwallowed ==
    \A c \in CallIds :
        (Resumed(c) /\ calls[c].pc = "done" /\ c = nCalls)
        => /\ calls[c].outcome = "ok"
           /\ calls[c].batch = BatchOf(c)
           /\ calls[c].batch # << >>
           /\ pending_request_id = None
           /\ IsSuffix(calls[c].batch, events_log)

\* A session started once: submit_decision returned its batch although a
\* release raised, which left a resource unreleased.
C26_Witness ==
    /\ nCalls = 2
    /\ Resumed(2) /\ calls[2].pc = "done" /\ calls[2].outcome = "ok"
    /\ open # {}
    /\ << "analyst_agent", 1 >> \notin open

\* ------------------------------------------------------------------ properties of two sessions

\* What a session holds: its request id, its log and the messages its gate
\* has kept.
SessionView(s) ==
    [ pending_request_id |-> two_session[s].pending_request_id,
      events_log |-> two_session[s].events_log,
      kept |-> GatePendingMessages(s) ]

\* C15: a step of an operation on one session leaves the pending request
\* id, the event log and the kept gate messages of every other session as
\* they were.
C15_SessionsIndependent ==
    [][ \A t \in Sessions : t # two_actor' => SessionView(t)' = SessionView(t) ]_vars

\* One session completed its run while the other waits for a decision with
\* its gate messages kept.
C15_Witness ==
    /\ two_session[1].pending_request_id = None
    /\ \E i \in DOMAIN two_session[1].events_log : IsOutput(two_session[1].events_log[i])
    /\ two_session[2].pending_request_id # None
    /\ two_run[2].state = "IDLE_WITH_PENDING_REQUESTS"
    /\ Len(GatePendingMessages(2).list) = 2
    /\ Len(GatePendingMessages(1).list) = 3

\* ------------------------------------------------------------------ properties of the dashboard

\* C16: when the flow is done, the decision went to the session whose start
\* produced the analysis shown, and the Analyst was called once since
\* Submit for Analysis.
C16_ResumesSameSession ==
    hitl_phase = "done"
        => /\ app_run.decided = app_run.shown
           /\ app_run.analyst_runs = 1

\* C17: once the processing phase has failed, no workflow is run until the
\* user clicks Submit for Analysis again.
C17_NoAutomaticRetry ==
    app_run.failed => app_pc \notin {"analyzing", "processing"}

\* The phases of the tab and the order the comment of line 210 gives them.
Phases == {"input", "analyzing", "decision", "processing", "done"}
PhaseForward ==
    { << "input", "analyzing" >>, << "analyzing", "decision" >>,
      << "decision", "processing" >>, << "processing", "done" >> }

\* C22: hitl_phase is always one of the five phases, and every step that
\* changes it moves it one phase forward, or is a Reset click and leaves it
\* at input, or is a failed analysis going from analyzing back to input; in
\* particular the phase becomes analyzing only from input.
C22_PhaseOrder ==
    [][ /\ hitl_phase \in Phases /\ hitl_phase' \in Phases
        /\ hitl_phase' # hitl_phase =>
              \/ << hitl_phase, hitl_phase' >> \in PhaseForward
              \/ hitl_phase' = "input" /\ AppScript("hitl_reset")
              \/ /\ hitl_phase = "analyzing" /\ hitl_phase' = "input"
                 /\ calls[1].pc = "done" /\ calls[1].outcome = "error" ]_vars

\* The tab went through all five phases, with one session for the analysis
\* and one for the processing.
C22_Witness ==
    /\ hitl_phase = "done"
    /\ hitl_final_events # << >>
    /\ app_nsessions >= 2

\* C27: whenever the phase is processing, hitl_decision holds the decision
\* the human chose with a button since the last Submit for Analysis, and
\* every decision the page submits to a session of that run, until the
\* next Submit for Analysis, is that one: never the
\* fallback "Approved", never a decision left from a run before a Reset.
C27_DecisionOfThisRun ==
    /\ hitl_phase = "processing"
          => /\ hitl_decision # ""
             /\ hitl_decision = app_run.chosen
    /\ hitl_phase \in {"processing", "done"}
          => \A i \in DOMAIN sent :
                /\ sent[i].decision = app_run.chosen
                /\ sent[i].decision \in { AppDecision(b) : b \in DecisionButtons }

\* A run begun after a Reset, with the decision of the run before still in
\* hitl_decision, submitted the decision chosen in it, another one.
C27_Witness ==
    /\ hitl_phase = "processing"
    /\ app_run.leftover # ""
    /\ sent # << >>
    /\ sent[1].decision # app_run.leftover

\* C28: in every state of the page, in phase input both event lists are
\* empty, hitl_final_events holds entries only in phase done, and
\* hitl_analysis_events holds entries only in the phases decision,
\* processing and done.
C28_EventListsByPhase ==
    /\ hitl_phase = "input"
          => hitl_analysis_events = << >> /\ hitl_final_events = << >>
    /\ hitl_final_events # << >> => hitl_phase = "done"
    /\ hitl_analysis_events # << >> => hitl_phase \in {"decision", "processing", "done"}

\* The page is back in phase input with empty lists after a run that had
\* filled hitl_analysis_events: the session of that run is still there.
C28_Witness ==
    /\ hitl_phase = "input"
    /\ app_pc = "idle"
    /\ hitl_analysis_events = << >>
    /\ nCalls >= 1 /\ calls[1].outcome = "ok"

\* C29: while the configuration is invalid the page runs no workflow: the
\* script never waits for a sequential run, a group chat or a session, the
\* phase is never analyzing or processing, and no session is created.
C29_NoRunWithoutConfig ==
    ~config_ok
        => /\ app_pc \notin {"seq_run", "tab3", "gc_run", "analyzing", "processing"}
           /\ hitl_phase \notin {"analyzing", "processing"}
           /\ seq_pc = "idle"
           /\ gc_pc = "idle"
           /\ app_nsessions = 0
           /\ nCalls = 0

\* With an invalid configuration a click on Reset, the one button that is
\* enabled, has made the script run.
C29_Witness ==
    /\ ~config_ok
    /\ app_pc = "rerun"
    /\ app_buttons = {"hitl_reset"}

\* ------------------------------------------------------------------ properties of all three workflows

\* C19: with an on_event callback given, the entries the callback was
\* called with are, in order, the entries of the list so far, and so of the
\* list the call returns: for run_sequential_workflow,
\* run_group_chat_workflow, start and submit_decision.
C19_CallbackPerEntry ==
    /\ seq_on_event => seq_called = seq_events_log
    /\ gc_on_event => gc_called = gc_all_events
    /\ \A c \in CallIds :
          (calls[c].on_event /\ calls[c].outcome = "ok") => calls[c].called = calls[c].batch

\* A submit_decision given a callback returned its batch, after a start
\* given a callback returned its.
C19_Witness ==
    \E c \in CallIds \ {1} :
        /\ calls[c].kind = "submit" /\ calls[c].on_event /\ calls[c].outcome = "ok"
        /\ Len(calls[c].called) > 4
        /\ calls[c - 1].kind = "start" /\ calls[c - 1].on_event
        /\ Len(calls[c - 1].called) > 7

\* The contexts the handlers of one run were called with grow at the end.
ContextsGrow(invoked) ==
    \A i, j \in DOMAIN invoked :
        i < j => IsPrefix(invoked[i].context, invoked[j].context)

\* C20: in a sequential run and in every run of a human-in-the-loop
\* session, the messages a stage is called with begin with the messages
\* every earlier stage of the run was called with.
C20_ContextAppendOnly ==
    /\ ContextsGrow(seq_invoked)
    /\ \A w \in CallIds : ContextsGrow(wf[w].invoked)

\* A human-in-the-loop run went through its three stages, each called with
\* one message more than the stage before.
C20_Witness ==
    \E w \in CallIds :
        /\ wf[w].state = "IDLE"
        /\ StagesInvoked(w) = << "analyst", "human-gate", "processor" >>
        /\ \A i \in 1 .. 3 : Len(wf[w].invoked[i].context) = i
        /\ wf[w].invoked[3].context[1] = wf[w].invoked[1].context[1]

\* ------------------------------------------------------------------ properties of the group chat

\* The k-th turn of a chat of the configured order: its speaker and round.
ExpectedTurnAgent(k) == gc_turn_order[((k - 1) % Len(gc_turn_order)) + 1]
ExpectedTurnRound(k) == ((k - 1) \div Len(gc_turn_order)) + 1

IsExpectedTurn(e, k) ==
    /\ e.type = "group_chat_turn"
    /\ e.agent = ExpectedTurnAgent(k)
    /\ e.round = ExpectedTurnRound(k)

\* C6: at every point of a run the moderator's events are the first turns of
\* the order p1..pN of round 1, then of round 2, ...; once the synthesis is
\* made they are all N*R turns followed by the one output event, and the
\* list the run hands over holds these entries in this order.
C6_RoundRobinOrder ==
    LET total == Len(gc_turn_order) * gc_max_rounds
    IN  /\ gc_pc \in {"turn", "synthesis", "raised"}
            => /\ Len(gc_events) <= total
               /\ \A k \in DOMAIN gc_events : IsExpectedTurn(gc_events[k], k)
        /\ gc_pc = "synthesis" => Len(gc_events) = total
        /\ gc_pc \in {"yielded", "returned"}
            => /\ Len(gc_events) = total + 1
               /\ \A k \in 1 .. total : IsExpectedTurn(gc_events[k], k)
               /\ gc_events[total + 1].type = "output"
               /\ SelectSeq(gc_all_events, LAMBDA e : e.type # "status") = gc_events

\* A chat of three participants and two rounds has returned its events.
C6_Witness ==
    /\ gc_pc = "returned"
    /\ Len(gc_turn_order) = 3
    /\ gc_max_rounds = 2
    /\ Len(gc_events) = 7
    /\ gc_events[4].agent = gc_turn_order[1] /\ gc_events[4].round = 2

\* The conversation after `n` replies: the framing message, then each reply
\* behind the name of the agent that was called for it.
ConversationAfter(n) ==
    [ j \in 1 .. n + 1 |->
        IF j = 1 THEN [ role |-> "user", text |-> << "framing" >> ]
        ELSE [ role |-> "assistant",
               text |-> << "[", gc_invoked[j - 1].agent, "]: " >>
                           \o gc_events[j - 1].content ] ]

\* C23: the k-th call of an agent, for k up to N*R, goes to the k-th speaker
\* of the round-robin order with the framing message followed by the k-1
\* earlier replies in order, each tagged with its speaker; the one call
\* after them is the synthesis, made with the framing message, all N*R
\* tagged replies and then the summary prompt, and a run that yields has
\* made it exactly once.
C23_TurnConversations ==
    LET total == Len(gc_turn_order) * gc_max_rounds
    IN  /\ Len(gc_invoked) <= total + 1
        /\ \A k \in DOMAIN gc_invoked :
               IF k <= total
               THEN /\ gc_invoked[k].agent = ExpectedTurnAgent(k)
                    /\ gc_invoked[k].messages = ConversationAfter(k - 1)
               ELSE gc_invoked[k].messages =
                       Append(ConversationAfter(total),
                              [ role |-> "user", text |-> << "summary prompt" >> ])
        /\ gc_pc = "turn" => Len(gc_invoked) < total
        /\ gc_pc = "synthesis" => Len(gc_invoked) = total
        /\ gc_pc \in {"yielded", "returned"} => Len(gc_invoked) = total + 1

\* A chat of three participants and two rounds made its six turns and its
\* synthesis.
C23_Witness ==
    /\ gc_pc = "returned"
    /\ Len(gc_turn_order) = 3
    /\ gc_max_rounds = 2
    /\ Len(gc_invoked) = 7
    /\ Len(gc_invoked[7].messages) = 8

\* The turn events of the moderator's list, in order.
GcTurns == SelectSeq(gc_events, LAMBDA e : e.type = "group_chat_turn")

\* C30: for every max_rounds from 0 on, each turn event carries a round
\* number between 1 and max_rounds and the round numbers never decrease;
\* in the list of a run that yields, each round number 1..max_rounds labels
\* exactly one turn of each participant, and the output event carries
\* max_rounds, the number of rounds run.
C30_RoundNumbers ==
    /\ \A k \in DOMAIN GcTurns : GcTurns[k].round \in 1 .. gc_max_rounds
    /\ \A j, k \in DOMAIN GcTurns : j <= k => GcTurns[j].round <= GcTurns[k].round
    /\ gc_pc \in {"yielded", "returned"}
          => /\ \A r \in 1 .. gc_max_rounds :
                   \A i \in DOMAIN gc_turn_order :
                       Cardinality({ k \in DOMAIN GcTurns :
                                        /\ GcTurns[k].round = r
                                        /\ GcTurns[k].agent = gc_turn_order[i] }) = 1
             /\ \A k \in DOMAIN gc_events :
                   gc_events[k].type = "output" => gc_events[k].round = gc_max_rounds

====
